---- MODULE Spec2Model ----
(***************************************************************************)
(* Model of cmd/mop/main.go: main() and the session loop mainLoop().       *)
(* The loop multiplexes one keyboard channel and three tickers; every      *)
(* iteration selects one ready event and handles it to completion.         *)
(***************************************************************************)
EXTENDS Integers, Sequences, FiniteSets, TLC

----------------------------------------------------------------------------
(* Bounds of the model *)

\* largest length of profile.Tickers the model considers
MaxTickers == 25
\* largest screen height (visible rows) the model considers
MaxHeight == 20

TickerCounts == {0, 3, MaxTickers}
Heights == {10, MaxHeight}

----------------------------------------------------------------------------
(* Program constants *)

\* main.go:57
pgUpDownLines == 10

Nil == "nil"

\* termbox key codes tested by the loop, plus one the loop does not test
KeyNone == "KeyNone"
KeyEsc == "KeyEsc"
KeyPgdn == "KeyPgdn"
KeyPgup == "KeyPgup"
KeyArrowDown == "KeyArrowDown"
KeyArrowUp == "KeyArrowUp"
KeyEnter == "KeyEnter"

Keys == {KeyNone, KeyEsc, KeyPgdn, KeyPgup, KeyArrowDown, KeyArrowUp, KeyEnter}

\* event.Ch: "" is the zero rune, "x" stands for any character without a command
Chars == {"", "q", "Q", "+", "-", "f", "F", "o", "O", "g", "G", "p", "P",
          "?", "h", "H", "x"}

EventKey == "EventKey"
EventResize == "EventResize"
EventMouse == "EventMouse"

\* a key event carries a special key, a character, or both; the events with
\* both are those of the special keys named in DualKeys
DualKeys == {KeyEsc, KeyPgdn, KeyPgup}
KeyEvents ==
    {e \in [type : {EventKey}, key : Keys, ch : Chars] :
        \/ e.ch = "" /\ e.key # KeyNone
        \/ e.ch # "" /\ e.key \in DualKeys \cup {KeyNone}}
OtherEvent(t) == [type |-> t, key |-> KeyNone, ch |-> ""]
Events == KeyEvents \cup {OtherEvent(EventResize), OtherEvent(EventMouse)}

\* keyboardQueue when the producer has no event to hand over
NoEvent == OtherEvent("none")

\* the select case taken by an iteration, named by its channel
CaseKeyboard == "keyboardQueue"
TickTimestamp == "timestampQueue"
TickQuotes == "quotesQueue"
TickMarket == "marketQueue"
Ticks == {TickTimestamp, TickQuotes, TickMarket}

Min(a, b) == IF a < b THEN a ELSE b
Max(a, b) == IF a > b THEN a ELSE b

----------------------------------------------------------------------------
VARIABLES
    pc,             \* position of main(): load, prompt, screen, select (blocked
                    \* in the select of mainLoop), case (a case of the select has
                    \* run to its end), save, exit
    exitCode,       \* process exit status, -1 while running
    saved,          \* number of profile.Save() calls
    tickers,        \* len(profile.Tickers)
    lineEditor,     \* Nil or the prompt character of the held *mop.LineEditor
    columnEditor,   \* Nil or "editor": the held *mop.ColumnEditor
    showingHelp,
    paused,
    offset,         \* screen.offset
    height,         \* screen height (visible rows)
    screenPaused,   \* the flag last given to screen.Pause
    timestampQueue, \* TRUE when the ticker's channel holds a tick
    quotesQueue,
    marketQueue,
    keyboardQueue,  \* the event the producer is blocked sending, or NoEvent
    event,          \* the event received by the keyboard case, or NoEvent
    last,           \* the select case taken by this iteration of the loop
    calls,          \* collaborator calls made by this iteration, in order
    resumed         \* history: the tickers with no tick handled since the
                    \* pause flag was last set false (recorded under SpecResume)

mainVars == <<exitCode, saved>>
modeVars == <<lineEditor, columnEditor, showingHelp>>
screenVars == <<offset, height, screenPaused>>
tickerVars == <<timestampQueue, quotesQueue, marketQueue>>
queueVars == <<timestampQueue, quotesQueue, marketQueue, keyboardQueue>>
vars == <<pc, exitCode, saved, tickers, lineEditor, columnEditor, showingHelp,
          paused, offset, height, screenPaused, timestampQueue, quotesQueue,
          marketQueue, keyboardQueue, event, last, calls, resumed>>

----------------------------------------------------------------------------
(* Collaborators of package mop, by the interface the loop uses *)

\* Screen.IncreaseOffset(n, max)
IncreaseOffset(off, n, max, rows) == Min(off + n, Max(0, max - rows))

\* Screen.DecreaseOffset(n)
DecreaseOffset(off, n) == Max(0, off - n)

----------------------------------------------------------------------------
Init ==
    /\ pc = "load"
    /\ exitCode = -1
    /\ saved = 0
    /\ tickers = 0
    /\ lineEditor = Nil
    /\ columnEditor = Nil
    /\ showingHelp = FALSE
    /\ paused = FALSE
    /\ offset = 0
    /\ height = 10
    /\ screenPaused = FALSE
    /\ timestampQueue = FALSE
    /\ quotesQueue = FALSE
    /\ marketQueue = FALSE
    /\ keyboardQueue = NoEvent
    /\ event = NoEvent
    /\ last = "none"
    /\ calls = <<>>
    /\ resumed = {}

----------------------------------------------------------------------------
(* main(): profile loading and the recovery prompt *)

\* mop.NewProfile(*profileName)
LoadProfile ==
    /\ pc = "load"
    /\ \E ok \in BOOLEAN :
          IF ok
          THEN /\ pc' = "screen"
               /\ \E n \in TickerCounts : tickers' = n
               /\ calls' = <<"NewProfile=nil">>
          ELSE /\ pc' = "prompt"
               /\ tickers' = tickers
               /\ calls' = <<"NewProfile=err", "Stderr(corrupted)">>
    /\ UNCHANGED <<mainVars, modeVars, paused, screenVars, queueVars, event, last>>

\* mutant: the answer is compared as it was typed
ToLowerIdentity(c) == c

\* strings.ToLower(string(rne))
ToLower(c) == IF c = "Y" THEN "y" ELSE IF c = "N" THEN "n" ELSE c

Answers == {"y", "Y", "n", "N", "x"}

\* one iteration of the "y"/"n" loop; calls records the key read by
\* keyboard.GetSingleKey() after the prompt text
Prompt(rne) ==
    /\ pc = "prompt"
    /\ LET res == ToLower(rne) IN
          IF res # "y" /\ res # "n"
          THEN /\ pc' = "prompt"
               /\ calls' = <<"Stderr(prompt)", rne, "Stderr(invalid)">>
               /\ UNCHANGED exitCode
          ELSE IF res = "y"
          THEN /\ pc' = "screen"
               /\ calls' = <<"Stderr(prompt)", rne, "InitDefaultProfile">>
               /\ UNCHANGED exitCode
          ELSE /\ pc' = "exit"
               /\ exitCode' = 1
               /\ calls' = <<"Stderr(prompt)", rne, "os.Exit">>
    /\ UNCHANGED <<saved, tickers, modeVars, paused, screenVars, queueVars, event, last>>

\* mop.NewScreen(profile), then mainLoop up to its first select
EnterMainLoop ==
    /\ pc = "screen"
    /\ pc' = "select"
    /\ \E h \in Heights : height' = h
    /\ offset' = 0
    /\ screenPaused' = FALSE
    /\ lineEditor' = Nil
    /\ columnEditor' = Nil
    /\ showingHelp' = FALSE
    /\ paused' = FALSE
    /\ timestampQueue' = FALSE
    /\ quotesQueue' = FALSE
    /\ marketQueue' = FALSE
    /\ keyboardQueue' = NoEvent
    /\ calls' = <<"NewScreen", "Draw(market,quotes)">>
    /\ UNCHANGED <<mainVars, tickers, event, last>>

\* mutant: main() returns without saving the profile
SaveProfileSkipped ==
    /\ pc = "save"
    /\ pc' = "exit"
    /\ saved' = saved
    /\ exitCode' = 0
    /\ calls' = <<"Close">>
    /\ UNCHANGED <<tickers, modeVars, paused, screenVars, queueVars, event, last>>

\* profile.Save() after mainLoop returned, then the deferred screen.Close()
SaveProfile ==
    /\ pc = "save"
    /\ pc' = "exit"
    /\ saved' = saved + 1
    /\ exitCode' = 0
    /\ calls' = <<"Save", "Close">>
    /\ UNCHANGED <<tickers, modeVars, paused, screenVars, queueVars, event, last>>

----------------------------------------------------------------------------
(* mainLoop: the keyboard case *)

\* mutant: the test forgets the help flag
NormalModeIgnoringHelp == lineEditor = Nil /\ columnEditor = Nil

\* no editor is held and help is not showing
NormalMode == lineEditor = Nil /\ columnEditor = Nil /\ ~showingHelp

\* the mode the key dispatch acts on, by the order of its tests
Mode ==
    IF NormalMode THEN "Normal"
    ELSE IF lineEditor # Nil THEN "LineEdit"
    ELSE IF columnEditor # Nil THEN "ColumnEdit"
    ELSE "Help"

IsQuitKey(e) == e.key = KeyEsc \/ e.ch = "q" \/ e.ch = "Q"

IsColumnEditorKey(e) == e.ch = "o" \/ e.ch = "O"

IsRegroupKey(e) == e.ch = "g" \/ e.ch = "G"

\* mutant: the upper-case character is not tested
IsPauseKeyLower(e) == e.ch = "p"

IsPauseKey(e) == e.ch = "p" \/ e.ch = "P"

IsHelpKey(e) == e.ch = "?" \/ e.ch = "h" \/ e.ch = "H"

IsDownKey(e) == e.key = KeyPgdn \/ e.key = KeyArrowDown

IsUpKey(e) == e.key = KeyPgup \/ e.key = KeyArrowUp

\* mutant: the quit keys are ignored
QuitIgnored ==
    /\ pc' = "case"
    /\ calls' = <<>>
    /\ UNCHANGED <<tickers, modeVars, paused, screenVars>>

\* break loop
Quit ==
    /\ pc' = "save"
    /\ calls' = <<>>
    /\ UNCHANGED <<tickers, modeVars, paused, screenVars>>

\* lineEditor = mop.NewLineEditor(screen, quotes); lineEditor.Prompt(event.Ch)
OpenLineEditor(e) ==
    /\ lineEditor' = e.ch
    /\ calls' = <<"NewLineEditor", "Prompt", e.ch>>
    /\ pc' = "case"
    /\ UNCHANGED <<tickers, columnEditor, showingHelp, paused, screenVars>>

\* profile.SetFilter("")
ClearFilter ==
    /\ calls' = <<"SetFilter">>
    /\ pc' = "case"
    /\ UNCHANGED <<tickers, modeVars, paused, screenVars>>

\* columnEditor = mop.NewColumnEditor(screen, quotes)
OpenColumnEditor ==
    /\ columnEditor' = "editor"
    /\ calls' = <<"NewColumnEditor">>
    /\ pc' = "case"
    /\ UNCHANGED <<tickers, lineEditor, showingHelp, paused, screenVars>>

\* mutant: the quotes are drawn whatever Regroup returns
RegroupAlwaysDraw ==
    /\ \E ok \in BOOLEAN :
          calls' = IF ok THEN <<"Regroup=nil", "Draw(quotes)">>
                   ELSE <<"Regroup=err", "Draw(quotes)">>
    /\ pc' = "case"
    /\ UNCHANGED <<tickers, modeVars, paused, screenVars>>

\* if profile.Regroup() == nil { screen.Draw(quotes) }
Regroup ==
    /\ \E ok \in BOOLEAN :
          calls' = IF ok THEN <<"Regroup=nil", "Draw(quotes)">> ELSE <<"Regroup=err">>
    /\ pc' = "case"
    /\ UNCHANGED <<tickers, modeVars, paused, screenVars>>

PauseText(b) == IF b THEN "Pause(true)" ELSE "Pause(false)"

\* mutant: the screen is given the flag as it was before the toggle
TogglePauseStale ==
    /\ paused' = ~paused
    /\ screenPaused' = paused
    /\ calls' = <<PauseText(paused), "Draw(time)">>
    /\ pc' = "case"
    /\ UNCHANGED <<tickers, modeVars, offset, height>>

\* paused = !paused; screen.Pause(paused).Draw(time.Now())
TogglePause ==
    /\ paused' = ~paused
    /\ screenPaused' = paused'
    /\ calls' = <<PauseText(paused'), "Draw(time)">>
    /\ pc' = "case"
    /\ UNCHANGED <<tickers, modeVars, offset, height>>

\* mutant: showing help scrolls back to the top
ShowHelpFromTop ==
    /\ showingHelp' = TRUE
    /\ offset' = 0
    /\ calls' = <<"Clear", "Draw(help)">>
    /\ pc' = "case"
    /\ UNCHANGED <<tickers, lineEditor, columnEditor, paused, height, screenPaused>>

\* showingHelp = true; screen.Clear().Draw(help)
ShowHelp ==
    /\ showingHelp' = TRUE
    /\ calls' = <<"Clear", "Draw(help)">>
    /\ pc' = "case"
    /\ UNCHANGED <<tickers, lineEditor, columnEditor, paused, screenVars>>

\* mutant: the offset is advanced without the clamping call
ScrollDownUnclamped == offset + pgUpDownLines

\* screen.IncreaseOffset(pgUpDownLines, len(profile.Tickers))
ScrollDownOffset == IncreaseOffset(offset, pgUpDownLines, tickers, height)

\* screen.DecreaseOffset(pgUpDownLines)
ScrollUpOffset == DecreaseOffset(offset, pgUpDownLines)

ScrollDown ==
    /\ offset' = ScrollDownOffset
    /\ calls' = <<"IncreaseOffset", "Clear", "Draw(market,quotes)">>
    /\ pc' = "case"
    /\ UNCHANGED <<tickers, modeVars, paused, height, screenPaused>>

ScrollUp ==
    /\ offset' = ScrollUpOffset
    /\ calls' = <<"DecreaseOffset", "Clear", "Draw(market,quotes)">>
    /\ pc' = "case"
    /\ UNCHANGED <<tickers, modeVars, paused, height, screenPaused>>

\* a key without a command, or an event type the switch has no case for
Ignore ==
    /\ calls' = <<>>
    /\ pc' = "case"
    /\ UNCHANGED <<tickers, modeVars, paused, screenVars>>

\* the command chain of Normal mode, in the order the code tests it
NormalKey(e) ==
    IF IsQuitKey(e) THEN Quit
    ELSE IF e.ch = "+" \/ e.ch = "-" THEN OpenLineEditor(e)
    ELSE IF e.ch = "f" THEN OpenLineEditor(e)
    ELSE IF e.ch = "F" THEN ClearFilter
    ELSE IF IsColumnEditorKey(e) THEN OpenColumnEditor
    ELSE IF IsRegroupKey(e) THEN Regroup
    ELSE IF IsPauseKey(e) THEN TogglePause
    ELSE IF IsHelpKey(e) THEN ShowHelp
    ELSE IF IsDownKey(e) THEN ScrollDown
    ELSE IF IsUpKey(e) THEN ScrollUp
    ELSE Ignore

\* the ticker counts a finished line editor can leave behind: "+" adds,
\* "-" removes, "f" only sets the filter expression
EditedCounts(prompt) ==
    IF prompt = "+" THEN {n \in TickerCounts : n >= tickers}
    ELSE IF prompt = "-" THEN {n \in TickerCounts : n <= tickers}
    ELSE {tickers}

\* mutant: the loop redraws after the line editor handled the key
LineEditorKeyThenRedraw(e) ==
    /\ \E done \in BOOLEAN :
          IF done
          THEN /\ lineEditor' = Nil
               /\ \E n \in EditedCounts(lineEditor) : tickers' = n
          ELSE /\ lineEditor' = lineEditor
               /\ tickers' = tickers
    /\ calls' = <<"lineEditor.Handle", e.key, e.ch, "Draw(market,quotes)">>
    /\ pc' = "case"
    /\ UNCHANGED <<columnEditor, showingHelp, paused, screenVars>>

\* if done := lineEditor.Handle(event); done { lineEditor = nil }; calls
\* records the key and the character of the event given to Handle
LineEditorKey(e) ==
    /\ \E done \in BOOLEAN :
          IF done
          THEN /\ lineEditor' = Nil
               /\ \E n \in EditedCounts(lineEditor) : tickers' = n
          ELSE /\ lineEditor' = lineEditor
               /\ tickers' = tickers
    /\ calls' = <<"lineEditor.Handle", e.key, e.ch>>
    /\ pc' = "case"
    /\ UNCHANGED <<columnEditor, showingHelp, paused, screenVars>>

\* if done := columnEditor.Handle(event); done { columnEditor = nil }
ColumnEditorKey(e) ==
    /\ \E done \in BOOLEAN :
          columnEditor' = IF done THEN Nil ELSE columnEditor
    /\ calls' = <<"columnEditor.Handle", e.key, e.ch>>
    /\ pc' = "case"
    /\ UNCHANGED <<tickers, lineEditor, showingHelp, paused, screenVars>>

\* mutant: dismissing help also resets the pause flag
DismissHelpAndUnpause ==
    /\ showingHelp' = FALSE
    /\ paused' = FALSE
    /\ calls' = <<"Clear", "Draw(market,quotes)">>
    /\ pc' = "case"
    /\ UNCHANGED <<tickers, lineEditor, columnEditor, screenVars>>

\* mutant: help is dismissed without the redraw
DismissHelpNoRedraw ==
    /\ showingHelp' = FALSE
    /\ calls' = <<>>
    /\ pc' = "case"
    /\ UNCHANGED <<tickers, lineEditor, columnEditor, paused, screenVars>>

\* showingHelp = false; screen.Clear().Draw(market, quotes)
DismissHelp ==
    /\ showingHelp' = FALSE
    /\ calls' = <<"Clear", "Draw(market,quotes)">>
    /\ pc' = "case"
    /\ UNCHANGED <<tickers, lineEditor, columnEditor, paused, screenVars>>

\* mutant: the quit keys are tested before the mode
KeyDispatchQuitFirst(e) ==
    IF IsQuitKey(e) \/ NormalMode THEN NormalKey(e)
    ELSE IF lineEditor # Nil THEN LineEditorKey(e)
    ELSE IF columnEditor # Nil THEN ColumnEditorKey(e)
    ELSE IF showingHelp THEN DismissHelp
    ELSE Ignore

\* case termbox.EventKey
KeyDispatch(e) ==
    IF NormalMode THEN NormalKey(e)
    ELSE IF lineEditor # Nil THEN LineEditorKey(e)
    ELSE IF columnEditor # Nil THEN ColumnEditorKey(e)
    ELSE IF showingHelp THEN DismissHelp
    ELSE Ignore

\* mutant: a paused session is not redrawn on a resize
ResizeUnlessPaused ==
    /\ \E h \in Heights : height' = h
    /\ calls' = IF paused THEN <<"Resize">>
                ELSE <<"Resize", IF ~showingHelp THEN "Draw(market,quotes)" ELSE "Draw(help)">>
    /\ pc' = "case"
    /\ UNCHANGED <<tickers, modeVars, paused, offset, screenPaused>>

\* case termbox.EventResize
Resize ==
    /\ \E h \in Heights : height' = h
    /\ calls' = <<"Resize", IF ~showingHelp THEN "Draw(market,quotes)" ELSE "Draw(help)">>
    /\ pc' = "case"
    /\ UNCHANGED <<tickers, modeVars, paused, offset, screenPaused>>

\* switch event.Type
EventDispatch(e) ==
    IF e.type = EventKey THEN KeyDispatch(e)
    ELSE IF e.type = EventResize THEN Resize
    ELSE Ignore

\* go func() { for { keyboardQueue <- termbox.PollEvent() } }(): PollEvent
\* returned e and the producer now blocks in the send
PollEvent(e) ==
    /\ pc = "select"
    /\ keyboardQueue = NoEvent
    /\ keyboardQueue' = e
    /\ UNCHANGED <<pc, mainVars, tickers, modeVars, paused, screenVars,
                   tickerVars, event, last, calls>>

\* case event := <-keyboardQueue
KeyboardEvent ==
    /\ pc = "select"
    /\ keyboardQueue # NoEvent
    /\ keyboardQueue' = NoEvent
    /\ event' = keyboardQueue
    /\ last' = CaseKeyboard
    /\ EventDispatch(event')
    /\ UNCHANGED <<mainVars, tickerVars>>

----------------------------------------------------------------------------
(* mainLoop: the three tickers *)

\* the runtime delivers a tick; the channel holds one, a second is dropped
FireTimestamp ==
    /\ pc = "select"
    /\ timestampQueue' = TRUE
    /\ UNCHANGED <<pc, mainVars, tickers, modeVars, paused, screenVars,
                   quotesQueue, marketQueue, keyboardQueue, event, last, calls>>

FireQuotes ==
    /\ pc = "select"
    /\ quotesQueue' = TRUE
    /\ UNCHANGED <<pc, mainVars, tickers, modeVars, paused, screenVars,
                   timestampQueue, marketQueue, keyboardQueue, event, last, calls>>

FireMarket ==
    /\ pc = "select"
    /\ marketQueue' = TRUE
    /\ UNCHANGED <<pc, mainVars, tickers, modeVars, paused, screenVars,
                   timestampQueue, quotesQueue, keyboardQueue, event, last, calls>>

\* mutant: the clock redraw forgets the pause flag
TimestampRedrawWhilePaused == IF ~showingHelp THEN <<"Draw(time)">> ELSE <<>>

\* if !showingHelp && !paused { screen.Draw(...) }
TimestampRedraw == IF ~showingHelp /\ ~paused THEN <<"Draw(time)">> ELSE <<>>

\* mutant: the quotes are not redrawn while the line editor is open
QuotesRedrawUnlessEditing ==
    IF ~showingHelp /\ ~paused /\ lineEditor = Nil THEN <<"Draw(quotes)">> ELSE <<>>

QuotesRedraw == IF ~showingHelp /\ ~paused THEN <<"Draw(quotes)">> ELSE <<>>

\* mutant: the market redraw forgets the pause flag
MarketRedrawWhilePaused == IF ~showingHelp THEN <<"Draw(market)">> ELSE <<>>

MarketRedraw == IF ~showingHelp /\ ~paused THEN <<"Draw(market)">> ELSE <<>>

\* mutant: the clock tick is taken only when no keyboard event is waiting
TimestampEventAfterKeyboard ==
    /\ pc = "select"
    /\ pc' = "case"
    /\ keyboardQueue = NoEvent
    /\ timestampQueue
    /\ timestampQueue' = FALSE
    /\ last' = TickTimestamp
    /\ calls' = TimestampRedraw
    /\ UNCHANGED <<mainVars, tickers, modeVars, paused, screenVars,
                   quotesQueue, marketQueue, keyboardQueue, event>>

\* case <-timestampQueue.C
TimestampEvent ==
    /\ pc = "select"
    /\ pc' = "case"
    /\ timestampQueue
    /\ timestampQueue' = FALSE
    /\ last' = TickTimestamp
    /\ calls' = TimestampRedraw
    /\ UNCHANGED <<mainVars, tickers, modeVars, paused, screenVars,
                   quotesQueue, marketQueue, keyboardQueue, event>>

\* case <-quotesQueue.C
QuotesEvent ==
    /\ pc = "select"
    /\ pc' = "case"
    /\ quotesQueue
    /\ quotesQueue' = FALSE
    /\ last' = TickQuotes
    /\ calls' = QuotesRedraw
    /\ UNCHANGED <<mainVars, tickers, modeVars, paused, screenVars,
                   timestampQueue, marketQueue, keyboardQueue, event>>

\* case <-marketQueue.C
MarketEvent ==
    /\ pc = "select"
    /\ pc' = "case"
    /\ marketQueue
    /\ marketQueue' = FALSE
    /\ last' = TickMarket
    /\ calls' = MarketRedraw
    /\ UNCHANGED <<mainVars, tickers, modeVars, paused, screenVars,
                   timestampQueue, quotesQueue, keyboardQueue, event>>

\* for { select { ... } }: the case has run to its end and the loop is back at
\* the select; event and what the iteration did go out of scope.  The tickers
\* and the producer take their next step after it: their steps change nothing
\* the loop reads before the select.
Iterate ==
    /\ pc = "case"
    /\ pc' = "select"
    /\ event' = NoEvent
    /\ last' = "none"
    /\ calls' = <<>>
    /\ UNCHANGED <<mainVars, tickers, modeVars, paused, screenVars, queueVars>>

----------------------------------------------------------------------------
\* the history of unpausing is not recorded
Next ==
    \/ LoadProfile /\ UNCHANGED resumed
    \/ \E rne \in Answers : Prompt(rne) /\ UNCHANGED resumed
    \/ EnterMainLoop /\ UNCHANGED resumed
    \/ \E e \in Events : PollEvent(e) /\ UNCHANGED resumed
    \/ KeyboardEvent /\ UNCHANGED resumed
    \/ FireTimestamp /\ UNCHANGED resumed
    \/ FireQuotes /\ UNCHANGED resumed
    \/ FireMarket /\ UNCHANGED resumed
    \/ TimestampEvent /\ UNCHANGED resumed
    \/ QuotesEvent /\ UNCHANGED resumed
    \/ MarketEvent /\ UNCHANGED resumed
    \/ Iterate /\ UNCHANGED resumed
    \/ SaveProfile /\ UNCHANGED resumed

Spec == Init /\ [][Next]_vars

----------------------------------------------------------------------------
(* The same program with the history of unpausing recorded; the producer    *)
(* polls the events that carry a special key or a character, not both.      *)

\* the events that are not key events with both a special key and a character
ResumeEvents ==
    {e \in Events : e.type = EventKey => (e.key = KeyNone \/ e.ch = "")}

\* the tickers whose tick the loop received in this step
Received ==
    {q \in Ticks : \/ q = TickTimestamp /\ timestampQueue /\ ~timestampQueue'
                   \/ q = TickQuotes /\ quotesQueue /\ ~quotesQueue'
                   \/ q = TickMarket /\ marketQueue /\ ~marketQueue'}

Track ==
    resumed' = IF paused /\ ~paused' THEN Ticks
               ELSE IF paused' \/ pc' \notin {"select", "case"} THEN {}
               ELSE resumed \ Received

NextResume ==
    \/ LoadProfile /\ Track
    \/ \E rne \in Answers : Prompt(rne) /\ Track
    \/ EnterMainLoop /\ Track
    \/ \E e \in ResumeEvents : PollEvent(e) /\ Track
    \/ KeyboardEvent /\ Track
    \/ FireTimestamp /\ Track
    \/ FireQuotes /\ Track
    \/ FireMarket /\ Track
    \/ TimestampEvent /\ Track
    \/ QuotesEvent /\ Track
    \/ MarketEvent /\ Track
    \/ Iterate /\ Track
    \/ SaveProfile /\ Track

SpecResume == Init /\ [][NextResume]_vars

----------------------------------------------------------------------------
(* The same program under the scheduling it runs with: a loop that has      *)
(* finished a case returns to the select, a select with a sender blocked on *)
(* keyboardQueue takes the keyboard case sooner or later (the runtime picks *)
(* among the ready cases at random), and main() saves once the loop has     *)
(* returned.  The producer polls the events of QuitRunEvents.               *)

QuitRunChars == {"q", "+", "o", "p", "?"}
QuitRunKeys == {KeyEsc, KeyPgdn}

\* the quit keys and one key for each way out of Normal mode, pausing and
\* scrolling, key or character but not both, and the resize
QuitRunEvents ==
    {e \in Events : \/ e.type = EventResize
                    \/ /\ e.type = EventKey
                       /\ \/ e.key = KeyNone /\ e.ch \in QuitRunChars
                          \/ e.key \in QuitRunKeys /\ e.ch = ""}

NextQuitRun ==
    \/ LoadProfile /\ UNCHANGED resumed
    \/ \E rne \in Answers : Prompt(rne) /\ UNCHANGED resumed
    \/ EnterMainLoop /\ UNCHANGED resumed
    \/ \E e \in QuitRunEvents : PollEvent(e) /\ UNCHANGED resumed
    \/ KeyboardEvent /\ UNCHANGED resumed
    \/ FireTimestamp /\ UNCHANGED resumed
    \/ FireQuotes /\ UNCHANGED resumed
    \/ FireMarket /\ UNCHANGED resumed
    \/ TimestampEvent /\ UNCHANGED resumed
    \/ QuotesEvent /\ UNCHANGED resumed
    \/ MarketEvent /\ UNCHANGED resumed
    \/ Iterate /\ UNCHANGED resumed
    \/ SaveProfile /\ UNCHANGED resumed

SpecQuitRun ==
    /\ Init
    /\ [][NextQuitRun]_vars
    /\ WF_vars(Iterate /\ UNCHANGED resumed)
    /\ SF_vars(KeyboardEvent /\ UNCHANGED resumed)
    /\ WF_vars(SaveProfile /\ UNCHANGED resumed)

----------------------------------------------------------------------------
(* Observation of steps, from the variables alone *)

InLoop == pc \in {"select", "case"}

\* the loop received a keyboard event in this step: it is event'
KeyboardReceived == pc = "select" /\ pc' # "select" /\ last' = CaseKeyboard

\* the loop received a key event
KeyReceived == KeyboardReceived /\ event'.type = EventKey

\* the loop received a tick of ticker q
TickHandled(q) == pc = "select" /\ pc' # "select" /\ last' = q

AnyTickHandled == \E q \in Ticks : TickHandled(q)

Draws == {"Draw(time)", "Draw(quotes)", "Draw(market)", "Draw(help)",
          "Draw(market,quotes)"}

HasDraw(cs) == \E i \in 1..Len(cs) : cs[i] \in Draws

GateOpen == ~showingHelp /\ ~paused

QuitKeyEvent(e) == e.type = EventKey /\ (e.key = KeyEsc \/ e.ch \in {"q", "Q"})

InBounds(off, count, rows) == 0 <= off /\ off <= Max(0, count - rows)

----------------------------------------------------------------------------
(* C1: a handled tick of each of the three tickers performs its redraw if   *)
(* and only if help is not showing and the pause flag is false, whatever    *)
(* editor is held, and the tick is taken out of the ticker's channel.       *)
C1_TickRedrawGated ==
    [][/\ TickHandled(TickTimestamp) =>
             /\ calls' = (IF GateOpen THEN <<"Draw(time)">> ELSE <<>>)
             /\ ~timestampQueue'
       /\ TickHandled(TickQuotes) =>
             /\ calls' = (IF GateOpen THEN <<"Draw(quotes)">> ELSE <<>>)
             /\ ~quotesQueue'
       /\ TickHandled(TickMarket) =>
             /\ calls' = (IF GateOpen THEN <<"Draw(market)">> ELSE <<>>)
             /\ ~marketQueue']_vars

\* a quotes tick redrew while the line editor was open
C1_Witness ==
    /\ pc = "case"
    /\ last = TickQuotes
    /\ calls = <<"Draw(quotes)">>
    /\ lineEditor # Nil
    /\ ~quotesQueue

----------------------------------------------------------------------------
(* C2 (checked under SpecResume).  As stated: ticks handled while paused    *)
(* draw nothing; after the pause flag is set false the very next tick of    *)
(* each ticker redraws; a handled tick never issues more than its own one   *)
(* redraw, so nothing dropped is replayed.                                  *)
C2_Dropped ==
    /\ paused /\ AnyTickHandled => calls' = <<>>
    /\ TickHandled(TickTimestamp) => calls' \in {<<>>, <<"Draw(time)">>}
    /\ TickHandled(TickQuotes) => calls' \in {<<>>, <<"Draw(quotes)">>}
    /\ TickHandled(TickMarket) => calls' \in {<<>>, <<"Draw(market)">>}

C2_AsStated ==
    [][/\ C2_Dropped
       /\ \A q \in Ticks : TickHandled(q) /\ q \in resumed => calls' # <<>>]_vars

(* C2 amended: the very next tick of each ticker after unpausing redraws    *)
(* provided help is not showing when it is handled (the flag is still false *)
(* whenever a ticker is in resumed).                                        *)
C2_ResumeUnlessHelp ==
    [][/\ C2_Dropped
       /\ resumed # {} => ~paused
       /\ \A q \in Ticks :
             TickHandled(q) /\ q \in resumed /\ ~showingHelp => calls' # <<>>]_vars

\* the first quotes tick since unpausing redrew; the other two are still due
C2_Witness ==
    /\ pc = "case"
    /\ last = TickQuotes
    /\ calls = <<"Draw(quotes)">>
    /\ resumed = Ticks \ {TickQuotes}

----------------------------------------------------------------------------
(* C3: in every state of the session loop the two editors are never both    *)
(* held, help never shows while an editor is held, and the mode is one of   *)
(* the four, an editor mode exactly when an editor is held.                 *)
C3_OneMode ==
    InLoop =>
        /\ ~(lineEditor # Nil /\ columnEditor # Nil)
        /\ ~(showingHelp /\ (lineEditor # Nil \/ columnEditor # Nil))
        /\ Mode \in {"Normal", "Help", "LineEdit", "ColumnEdit"}
        /\ (lineEditor # Nil \/ columnEditor # Nil) <=> Mode \in {"LineEdit", "ColumnEdit"}
        /\ showingHelp <=> Mode = "Help"

\* a resize was handled while the column editor was held
C3_Witness ==
    /\ pc = "case"
    /\ columnEditor # Nil
    /\ event.type = EventResize

----------------------------------------------------------------------------
(* C4: the loop ends only in a step that receives a quit key in Normal      *)
(* mode; ticks, resizes, editor completions and keys of the other modes     *)
(* never end it, and a "q" received in LineEdit goes to the line editor.    *)
C4_QuitOnlyInNormal ==
    [][/\ InLoop /\ ~InLoop' =>
             /\ KeyReceived
             /\ QuitKeyEvent(event')
             /\ Mode = "Normal"
       /\ KeyReceived /\ Mode = "LineEdit" /\ event'.ch = "q" =>
             /\ calls' = <<"lineEditor.Handle", event'.key, "q">>
             /\ pc' = "case"]_vars

\* the loop has ended, by "Q" in Normal mode
C4_Witness == pc = "save" /\ event.ch = "Q" /\ calls = <<>>

----------------------------------------------------------------------------
(* C5 as stated: a quit key received in Help, LineEdit or ColumnEdit leaves *)
(* Mode, the pause flag, the scroll offset and the help flag as they were,  *)
(* and the session does not end.                                            *)
C5_AsStated ==
    [][KeyReceived /\ QuitKeyEvent(event') /\ Mode # "Normal" =>
           /\ Mode' = Mode
           /\ paused' = paused
           /\ offset' = offset
           /\ showingHelp' = showingHelp
           /\ pc' = "case"]_vars

(* C5 amended: a quit key received in Help, LineEdit or ColumnEdit never    *)
(* ends the session and leaves the pause flag and the scroll offset as they *)
(* were; in Help it dismisses help, so Mode becomes Normal; in LineEdit and *)
(* ColumnEdit it goes to the editor, and Mode stays unless the editor       *)
(* reports done, which returns Mode to Normal.                              *)
C5_QuitKeyOutsideNormal ==
    [][KeyReceived /\ QuitKeyEvent(event') /\ Mode # "Normal" =>
           /\ pc' = "case"
           /\ paused' = paused
           /\ offset' = offset
           /\ Mode = "Help" =>
                 /\ Mode' = "Normal"
                 /\ calls' = <<"Clear", "Draw(market,quotes)">>
           /\ Mode = "LineEdit" =>
                 /\ Mode' \in {"LineEdit", "Normal"}
                 /\ calls' = <<"lineEditor.Handle", event'.key, event'.ch>>
                 /\ ~showingHelp'
           /\ Mode = "ColumnEdit" =>
                 /\ Mode' \in {"ColumnEdit", "Normal"}
                 /\ calls' = <<"columnEditor.Handle", event'.key, event'.ch>>
                 /\ ~showingHelp']_vars

\* Escape went to the column editor while paused, and the editor goes on
C5_Witness ==
    /\ pc = "case"
    /\ event.key = KeyEsc
    /\ calls = <<"columnEditor.Handle", KeyEsc, "">>
    /\ Mode = "ColumnEdit"
    /\ paused

----------------------------------------------------------------------------
(* C6: from a scroll offset within bounds, a page or arrow key received in  *)
(* Normal mode leaves the offset within 0 .. max(0, tickers - height); with *)
(* 3 tickers on 10 rows a down key leaves it at 0; a down key at the upper  *)
(* bound and an up key at 0 leave it unchanged.                             *)
DownKeys == {KeyPgdn, KeyArrowDown}
UpKeys == {KeyPgup, KeyArrowUp}

C6_ScrollClamped ==
    [][KeyReceived /\ Mode = "Normal" /\ InBounds(offset, tickers, height) =>
           /\ event'.key \in DownKeys \cup UpKeys =>
                 InBounds(offset', tickers', height')
           /\ event'.key \in DownKeys /\ tickers = 3 /\ height = 10 => offset' = 0
           /\ event'.key \in DownKeys /\ offset = Max(0, tickers - height) =>
                 offset' = offset
           /\ event'.key \in UpKeys /\ offset = 0 => offset' = 0]_vars

\* a page-down was clamped at the upper bound, short of a full page
C6_Witness ==
    /\ pc = "case"
    /\ event.key = KeyPgdn
    /\ calls = <<"IncreaseOffset", "Clear", "Draw(market,quotes)">>
    /\ offset = Max(0, tickers - height)
    /\ offset % pgUpDownLines # 0

----------------------------------------------------------------------------
(* C7: in every state of the session the scroll offset is within            *)
(* 0 .. max(0, tickers - height), also after the line editor changed the    *)
(* ticker list and after a resize.                                          *)
C7_OffsetInBounds == InLoop => InBounds(offset, tickers, height)

----------------------------------------------------------------------------
(* C8: in Normal mode a key event with the character "?", "h" or "H" (and   *)
(* not the Escape key) sets Mode to Help and draws the help text; in Help   *)
(* any key event clears help, returns Mode to Normal and redraws market and *)
(* quotes, and does nothing the key would do in Normal mode.                *)
HelpChars == {"?", "h", "H"}

C8_HelpOverlay ==
    [][/\ KeyReceived /\ Mode = "Normal" /\ event'.ch \in HelpChars
             /\ event'.key # KeyEsc =>
             /\ Mode' = "Help"
             /\ calls' = <<"Clear", "Draw(help)">>
       /\ KeyReceived /\ Mode = "Help" =>
             /\ Mode' = "Normal"
             /\ calls' = <<"Clear", "Draw(market,quotes)">>
             /\ pc' = "case"
             /\ paused' = paused
             /\ screenPaused' = screenPaused
             /\ offset' = offset
             /\ tickers' = tickers]_vars

\* "p" dismissed help and did not pause
C8_Witness ==
    /\ pc = "case"
    /\ event.ch = "p"
    /\ calls = <<"Clear", "Draw(market,quotes)">>
    /\ Mode = "Normal"
    /\ ~paused

----------------------------------------------------------------------------
(* C9: in Normal mode a key event with the character "p" or "P" (and not    *)
(* the Escape key) flips the pause flag and makes one clock redraw that     *)
(* carries the new flag; no other step changes the flag, so a second press  *)
(* restores it and its redraw carries the unpaused flag.                    *)
PauseChars == {"p", "P"}

C9_PauseToggle ==
    [][/\ KeyReceived /\ Mode = "Normal" /\ event'.ch \in PauseChars
             /\ event'.key # KeyEsc =>
             /\ paused' = ~paused
             /\ screenPaused' = paused'
             /\ calls' = <<IF paused THEN "Pause(false)" ELSE "Pause(true)",
                           "Draw(time)">>
       /\ paused' # paused =>
             KeyReceived /\ Mode = "Normal" /\ event'.ch \in PauseChars]_vars

\* the second press: "P" resumed the session and the clock was drawn unpaused
C9_Witness ==
    /\ pc = "case"
    /\ event.ch = "P"
    /\ calls = <<"Pause(false)", "Draw(time)">>
    /\ ~paused
    /\ ~screenPaused

----------------------------------------------------------------------------
(* C10 as stated: no iteration of the loop that starts with the pause flag  *)
(* true draws on the screen, whether it handles a tick, a key or a resize.  *)
C10_AsStated ==
    [][paused /\ pc = "select" /\ pc' # "select" => ~HasDraw(calls')]_vars

(* C10 amended: while the pause flag is true no timer tick draws on the     *)
(* screen; the draws of an iteration that starts paused are those of a key  *)
(* event or a resize event.                                                 *)
C10_NoTickDrawWhilePaused ==
    [][/\ paused /\ AnyTickHandled => ~HasDraw(calls')
       /\ paused /\ pc = "select" /\ pc' # "select" /\ HasDraw(calls') =>
             /\ KeyboardReceived
             /\ event'.type \in {EventKey, EventResize}]_vars

\* a clock tick was handled while paused and drew nothing
C10_Witness ==
    /\ pc = "case"
    /\ paused
    /\ last = TickTimestamp
    /\ calls = <<>>

----------------------------------------------------------------------------
\* the recovery prompt read a key in this step: it is calls'[2]
PromptAnswered == pc = "prompt" /\ Len(calls') = 3 /\ calls'[1] = "Stderr(prompt)"

\* the three outcomes of an answer, as main() records them
Proceeds == pc' = "screen" /\ calls'[3] = "InitDefaultProfile" /\ exitCode' = -1
ExitsWithOne == pc' = "exit" /\ calls'[3] = "os.Exit" /\ exitCode' = 1 /\ saved' = 0
Repeats == pc' = "prompt" /\ calls'[3] = "Stderr(invalid)" /\ exitCode' = -1

\* every step taken at the prompt reads a key, and the prompt is entered
\* from the failed load only
PromptFrame ==
    /\ pc = "prompt" /\ vars' # vars => PromptAnswered
    /\ pc' = "prompt" => pc \in {"load", "prompt"}
    /\ exitCode' = 1 => saved' = 0 /\ pc' = "exit"

(* C11 as stated: at the recovery prompt "y" reinitializes the default      *)
(* profile and proceeds, "n" exits with status 1 and nothing saved, and any *)
(* other character reports an invalid answer and repeats the prompt; the    *)
(* prompt is not entered once the session loop has started.                 *)
C11_AsStated ==
    [][/\ PromptFrame
       /\ PromptAnswered =>
             /\ calls'[2] = "y" => Proceeds
             /\ calls'[2] = "n" => ExitsWithOne
             /\ calls'[2] \notin {"y", "n"} => Repeats]_vars

(* C11 amended: the answer is taken without regard to case: "y" and "Y"     *)
(* reinitialize the default profile and proceed, "n" and "N" exit with      *)
(* status 1 and nothing saved, any other character reports an invalid       *)
(* answer and repeats the prompt; the prompt is not entered once the        *)
(* session loop has started.                                                *)
C11_PromptIgnoringCase ==
    [][/\ PromptFrame
       /\ PromptAnswered =>
             /\ calls'[2] \in {"y", "Y"} => Proceeds
             /\ calls'[2] \in {"n", "N"} => ExitsWithOne
             /\ calls'[2] \notin {"y", "Y", "n", "N"} => Repeats]_vars

\* the process has exited with status 1 on the answer "N", nothing saved
C11_Witness ==
    /\ pc = "exit"
    /\ exitCode = 1
    /\ calls = <<"Stderr(prompt)", "N", "os.Exit">>
    /\ saved = 0

----------------------------------------------------------------------------
----------------------------------------------------------------------------
\* the same letter in the other case
OtherCase(c) ==
    CASE c = "q" -> "Q" [] c = "Q" -> "q"
      [] c = "f" -> "F" [] c = "F" -> "f"
      [] c = "o" -> "O" [] c = "O" -> "o"
      [] c = "g" -> "G" [] c = "G" -> "g"
      [] c = "p" -> "P" [] c = "P" -> "p"
      [] c = "h" -> "H" [] c = "H" -> "h"
      [] OTHER -> c

\* the event e with its character in the other case
WithOtherCase(e) == [e EXCEPT !.ch = OtherCase(e.ch)]

Letters == {"q", "Q", "f", "F", "o", "O", "g", "G", "p", "P", "h", "H"}

(* C13 as stated: in Normal mode every step taken on a key event with one   *)
(* of the letters q, f, o, g, p, h, in either case, is also a step of the   *)
(* same event with the letter in the other case: same state change, same    *)
(* collaborator calls.                                                      *)
C13_AsStated ==
    [][KeyReceived /\ Mode = "Normal" /\ event'.ch \in Letters =>
           KeyDispatch(WithOtherCase(event'))]_vars

(* C13 amended: the same for the letters q, o, g, p, h; "f" and "F" are     *)
(* two commands: "f" opens the line editor with the filter prompt, "F"      *)
(* clears the filter and leaves Mode at Normal.                             *)
C13_CaseInsensitiveButF ==
    [][/\ KeyReceived /\ Mode = "Normal" /\ event'.ch \in Letters \ {"f", "F"} =>
             KeyDispatch(WithOtherCase(event'))
       /\ KeyReceived /\ Mode = "Normal" /\ event'.key # KeyEsc =>
             /\ event'.ch = "f" =>
                   /\ Mode' = "LineEdit"
                   /\ calls' = <<"NewLineEditor", "Prompt", "f">>
             /\ event'.ch = "F" =>
                   /\ Mode' = "Normal"
                   /\ calls' = <<"SetFilter">>]_vars

\* "G" regrouped and redrew the quotes, as "g" does
C13_Witness ==
    /\ pc = "case"
    /\ event.ch = "G"
    /\ event.key = KeyNone
    /\ calls = <<"Regroup=nil", "Draw(quotes)">>

----------------------------------------------------------------------------
\* a key event that carries both a special key and a character
CarriesBoth(e) == e.type = EventKey /\ e.key # KeyNone /\ e.ch # ""

(* C14: in Normal mode, a key event that carries both a special key and a   *)
(* character quits when the key is Escape, scrolls down when it is PgDn or  *)
(* ArrowDown and scrolls up when it is PgUp or ArrowUp, whatever the        *)
(* character; with any other special key it does what the character alone   *)
(* does.                                                                    *)
C14_SpecialKeyDecides ==
    [][KeyReceived /\ Mode = "Normal" /\ CarriesBoth(event') =>
           IF event'.key = KeyEsc THEN pc' = "save"
           ELSE IF IsDownKey(event')
           THEN /\ offset' = ScrollDownOffset
                /\ calls' = <<"IncreaseOffset", "Clear", "Draw(market,quotes)">>
                /\ UNCHANGED <<modeVars, paused>>
           ELSE IF IsUpKey(event')
           THEN /\ offset' = ScrollUpOffset
                /\ calls' = <<"DecreaseOffset", "Clear", "Draw(market,quotes)">>
                /\ UNCHANGED <<modeVars, paused>>
           ELSE KeyDispatch([event' EXCEPT !.key = KeyNone])]_vars

----------------------------------------------------------------------------
\* the Handle call of the editor that Mode names
HandleOf(mode) == IF mode = "LineEdit" THEN "lineEditor.Handle" ELSE "columnEditor.Handle"

(* C15: in LineEdit and ColumnEdit every key event received is given, key   *)
(* and character as the producer handed them over, to the Handle of the     *)
(* held editor, and the loop makes no other call and no redraw; either the  *)
(* editor is released and Mode is Normal after the step, or Mode and both   *)
(* editor variables are as before; the pause flag, the help flag and the    *)
(* scroll offset are untouched and the loop goes on.                        *)
C15_ForwardedToEditor ==
    [][KeyReceived /\ Mode \in {"LineEdit", "ColumnEdit"} =>
           /\ event' = keyboardQueue
           /\ calls' = <<HandleOf(Mode), keyboardQueue.key, keyboardQueue.ch>>
           /\ ~HasDraw(calls')
           /\ pc' = "case"
           /\ \/ Mode' = "Normal" /\ lineEditor' = Nil /\ columnEditor' = Nil
              \/ Mode' = Mode /\ UNCHANGED <<lineEditor, columnEditor>>
           /\ UNCHANGED <<showingHelp, paused, offset, height, screenPaused>>]_vars

\* the "+" editor was given Enter and reported done: Mode is Normal again
C15_Witness ==
    /\ pc = "case"
    /\ event.key = KeyEnter
    /\ calls = <<"lineEditor.Handle", KeyEnter, "">>
    /\ Mode = "Normal"
    /\ tickers = MaxTickers

----------------------------------------------------------------------------
\* the loop received a resize event
ResizeReceived == KeyboardReceived /\ event'.type = EventResize

(* C16: a resize event received in any Mode, paused or not, makes the loop  *)
(* resize the screen and draw once: the help text when the help flag is     *)
(* set, market and quotes otherwise; Mode, the pause flag and both editor   *)
(* variables are as before and the loop goes on.                            *)
C16_ResizeRedraws ==
    [][ResizeReceived =>
           /\ calls' = <<"Resize", IF showingHelp THEN "Draw(help)"
                                   ELSE "Draw(market,quotes)">>
           /\ Mode' = Mode
           /\ UNCHANGED <<lineEditor, columnEditor, showingHelp, paused, screenPaused>>
           /\ pc' = "case"]_vars

\* a resize redrew market and quotes while paused with the line editor held
C16_Witness ==
    /\ pc = "case"
    /\ event.type = EventResize
    /\ calls = <<"Resize", "Draw(market,quotes)">>
    /\ paused
    /\ Mode = "LineEdit"

----------------------------------------------------------------------------
RegroupChars == {"g", "G"}

(* C17: in Normal mode a key event with the character "g" or "G" (and not   *)
(* the Escape key) asks for the regroup; the quotes are drawn at once when  *)
(* it succeeds and nothing is drawn when it fails; either way Mode, the     *)
(* pause flag and the scroll offset are as before and the loop goes on.     *)
C17_RegroupRedraw ==
    [][KeyReceived /\ Mode = "Normal" /\ event'.ch \in RegroupChars
          /\ event'.key # KeyEsc =>
           /\ Len(calls') >= 1
           /\ calls'[1] \in {"Regroup=nil", "Regroup=err"}
           /\ calls'[1] = "Regroup=nil" => calls' = <<"Regroup=nil", "Draw(quotes)">>
           /\ calls'[1] = "Regroup=err" => calls' = <<"Regroup=err">>
           /\ Mode' = Mode
           /\ UNCHANGED <<lineEditor, columnEditor, showingHelp, paused, offset>>
           /\ pc' = "case"]_vars

\* the regroup failed: nothing was drawn and the loop is about to iterate
C17_Witness ==
    /\ pc = "case"
    /\ event.ch = "g"
    /\ calls = <<"Regroup=err">>
    /\ Mode = "Normal"

----------------------------------------------------------------------------
\* the producer polled an event and waits to hand it over
Polled == keyboardQueue = NoEvent /\ keyboardQueue' # NoEvent

\* the loop selected a case of the select in this step
Selected == last' # "none" /\ (last' # last \/ pc = "select")

(* C18: the producer holds one polled event at a time and polls the next    *)
(* only after the loop took it; the loop takes the event the producer       *)
(* holds, and taking it empties the producer's hand, so every polled event  *)
(* is handled at most once and in polling order.  A case is selected only   *)
(* at the select, and after it the loop does nothing but return to the      *)
(* select.  A step of the producer leaves Mode, the pause flag, the scroll  *)
(* offset and the editors alone.  At the select, a tick that is ready can   *)
(* be handled also while the producer waits with an event.                  *)
C18_ProducerAndLoop ==
    [][/\ keyboardQueue' # keyboardQueue => Polled \/ KeyboardReceived
       /\ KeyboardReceived =>
             /\ keyboardQueue # NoEvent
             /\ event' = keyboardQueue
             /\ keyboardQueue' = NoEvent
       /\ event' # event /\ event' # NoEvent => KeyboardReceived
       /\ Selected => pc = "select" /\ pc' \in {"case", "save"}
       /\ pc = "case" =>
             /\ pc' = "select" /\ last' = "none"
             /\ UNCHANGED <<modeVars, paused, screenVars, tickers, queueVars>>
       /\ Polled =>
             /\ Mode' = Mode
             /\ UNCHANGED <<pc, modeVars, paused, screenVars, tickers, tickerVars,
                            event, last, calls>>
       /\ pc = "select" /\ keyboardQueue # NoEvent =>
             /\ timestampQueue => ENABLED TimestampEvent
             /\ quotesQueue => ENABLED QuotesEvent
             /\ marketQueue => ENABLED MarketEvent]_vars

\* the clock tick was handled while the producer waited with a "p"; the
\* session is not paused, the "p" is still to be handled
C18_Witness ==
    /\ pc = "case"
    /\ last = TickTimestamp
    /\ keyboardQueue.ch = "p"
    /\ ~paused
    /\ calls = <<"Draw(time)">>

----------------------------------------------------------------------------
LineEditorChars == {"+", "-", "f"}
ColumnEditorChars == {"o", "O"}

\* a key event was received in Normal mode
NormalKeyReceived == KeyReceived /\ Mode = "Normal"

(* C19: in the session loop, a step that handles a tick or a resize leaves  *)
(* Mode, the pause flag, the scroll offset and the editors as they were,    *)
(* and every step that changes one of them receives a key event; the pause  *)
(* flag changes only on "p"/"P" in Normal mode, the scroll offset only on a *)
(* page or arrow key in Normal mode, a line editor is created only on "+",  *)
(* "-" or "f" and a column editor only on "o" or "O", in Normal mode.       *)
C19_ChangedOnlyByKeys ==
    [][InLoop =>
        /\ AnyTickHandled \/ ResizeReceived =>
              /\ Mode' = Mode
              /\ UNCHANGED <<lineEditor, columnEditor, showingHelp, paused, offset>>
        /\ <<lineEditor, columnEditor, showingHelp, paused, offset>>' #
              <<lineEditor, columnEditor, showingHelp, paused, offset>> => KeyReceived
        /\ paused' # paused => NormalKeyReceived /\ event'.ch \in PauseChars
        /\ offset' # offset => NormalKeyReceived /\ event'.key \in DownKeys \cup UpKeys
        /\ lineEditor = Nil /\ lineEditor' # Nil =>
              NormalKeyReceived /\ event'.ch \in LineEditorChars
        /\ columnEditor = Nil /\ columnEditor' # Nil =>
              NormalKeyReceived /\ event'.ch \in ColumnEditorChars]_vars

\* a quotes tick was handled in a paused, scrolled session with the column
\* editor held, and all of that is as it was
C19_Witness ==
    /\ pc = "case"
    /\ last = TickQuotes
    /\ paused
    /\ offset > 0
    /\ columnEditor # Nil

----------------------------------------------------------------------------
(* C20 (checked under SpecQuitRun).  Quit keys keep being delivered: from   *)
(* some point on every key event the loop receives is a quit key, and key   *)
(* events are received again and again.  Every active editor eventually     *)
(* reports done: each editor variable is nil again and again.               *)
OnlyQuitKeysFromSomePoint == <>[][KeyReceived => QuitKeyEvent(event')]_vars
KeysKeepComing == []<><<KeyReceived>>_vars
EditorsReportDone == []<>(lineEditor = Nil) /\ []<>(columnEditor = Nil)

(* C20: if quit keys keep being delivered and every active editor           *)
(* eventually reports done, the session loop, wherever it is (Normal, Help, *)
(* LineEdit, ColumnEdit, paused or not), is eventually left; a quit key     *)
(* received in Help dismisses help without leaving the loop and leaves Mode *)
(* at Normal, and a quit key received in Normal mode leaves the loop, so    *)
(* from Help it takes two quit keys.                                        *)
C20_QuitEventually ==
    /\ OnlyQuitKeysFromSomePoint /\ KeysKeepComing /\ EditorsReportDone =>
          (InLoop ~> pc = "save")
    /\ [][KeyReceived /\ QuitKeyEvent(event') =>
             /\ Mode = "Help" =>
                   /\ pc' = "case"
                   /\ Mode' = "Normal"
                   /\ calls' = <<"Clear", "Draw(market,quotes)">>
             /\ Mode = "Normal" => pc' = "save"]_vars

\* the loop was left by Escape in a paused, scrolled session
C20_Witness ==
    /\ pc = "save"
    /\ event.key = KeyEsc
    /\ paused
    /\ offset > 0

====
